---- MODULE Spec2Model ----
(***************************************************************************)
(* A model of how_much.py: the car.gr crawler (get_data / main), its pager *)
(* (normalize_url, get_last_page_number) and its listing extractor         *)
(* (get_page_bikes) with the field normalisation of lines 147-151.         *)
(*                                                                         *)
(* Text is modelled character by character: a Python str is a sequence of  *)
(* one-character strings.  Python floats are modelled as IEEE-754 doubles  *)
(* (53-bit significand, round-to-nearest-even) over little-endian bit      *)
(* sequences, because int(float(s) * 1000) depends on the rounding of the  *)
(* product.  Exceptions are modelled as values: every operator that can    *)
(* raise returns a record with an exc field naming the exception.          *)
(***************************************************************************)
EXTENDS Integers, Sequences, FiniteSets, TLC

(***************************************************************************)
(* A local variable: v is evaluated once and F applied to its value, as    *)
(* Python evaluates the right-hand side of an assignment once.             *)
(***************************************************************************)
Bind(v, F(_)) == CHOOSE r \in {F(w) : w \in {v}} : TRUE

(***************************************************************************)
(* Python str helpers                                                      *)
(***************************************************************************)
Digits == {"0", "1", "2", "3", "4", "5", "6", "7", "8", "9"}

DigitVal(c) ==
    CASE c = "0" -> 0 [] c = "1" -> 1 [] c = "2" -> 2 [] c = "3" -> 3
      [] c = "4" -> 4 [] c = "5" -> 5 [] c = "6" -> 6 [] c = "7" -> 7
      [] c = "8" -> 8 [] c = "9" -> 9

DigitChar(n) ==
    CASE n = 0 -> "0" [] n = 1 -> "1" [] n = 2 -> "2" [] n = 3 -> "3"
      [] n = 4 -> "4" [] n = 5 -> "5" [] n = 6 -> "6" [] n = 7 -> "7"
      [] n = 8 -> "8" [] n = 9 -> "9"

\* s[from:] and s[:to] with 0-based Python bounds already clamped by the caller
Drop(s, n) == IF n >= Len(s) THEN <<>> ELSE SubSeq(s, n + 1, Len(s))
Take(s, n) == IF n <= 0 THEN <<>> ELSE SubSeq(s, 1, IF n > Len(s) THEN Len(s) ELSE n)

\* sub in s
HasPrefixAt(s, sub, i) ==
    /\ i + Len(sub) - 1 <= Len(s)
    /\ \A j \in 1..Len(sub) : s[i + j - 1] = sub[j]

Contains(s, sub) == \E i \in 1..(Len(s) + 1) : HasPrefixAt(s, sub, i)

\* str.strip(): the model's only whitespace character is the blank
RECURSIVE LStrip(_)
LStrip(s) == IF s # <<>> /\ Head(s) = " " THEN LStrip(Tail(s)) ELSE s

RECURSIVE RStrip(_)
RStrip(s) == IF s # <<>> /\ s[Len(s)] = " " THEN RStrip(SubSeq(s, 1, Len(s) - 1)) ELSE s

Strip(s) == RStrip(LStrip(s))

\* str.split("/")
RECURSIVE SplitAcc(_, _, _)
SplitAcc(s, sep, cur) ==
    IF s = <<>> THEN <<cur>>
    ELSE IF Head(s) = sep THEN <<cur>> \o SplitAcc(Tail(s), sep, <<>>)
    ELSE SplitAcc(Tail(s), sep, Append(cur, Head(s)))

Split(s, sep) == SplitAcc(s, sep, <<>>)

IsDigits(s) == s # <<>> /\ \A i \in 1..Len(s) : s[i] \in Digits

RECURSIVE DecValue(_)
DecValue(s) == IF s = <<>> THEN 0 ELSE 10 * DecValue(SubSeq(s, 1, Len(s) - 1)) + DigitVal(s[Len(s)])

\* str(n) for n >= 0
RECURSIVE NatStr(_)
NatStr(n) == IF n < 10 THEN <<DigitChar(n)>> ELSE Append(NatStr(n \div 10), DigitChar(n % 10))

\* int(s): surrounding blanks stripped, an optional sign, then digits only
Signed(t) == t # <<>> /\ Head(t) \in {"-", "+"}

PyInt(s) ==
    Bind(Strip(s), LAMBDA t :
    Bind(IF Signed(t) THEN Tail(t) ELSE t, LAMBDA u :
        IF IsDigits(u)
        THEN [exc |-> "none",
              val |-> IF Head(t) = "-" THEN 0 - DecValue(u) ELSE DecValue(u)]
        ELSE [exc |-> "ValueError", val |-> 0]))

(***************************************************************************)
(* Naturals beyond TLC's 32-bit integers: little-endian sequences of       *)
(* base-1024 limbs for multiplication and division, little-endian bit      *)
(* sequences for rounding.  Neither form carries high zeros.               *)
(***************************************************************************)
LimbBase == 1024
LimbWidth == 10

RECURSIVE Pow2(_)
Pow2(n) == IF n = 0 THEN 1 ELSE 2 * Pow2(n - 1)

RECURSIVE Pow10(_)
Pow10(d) == IF d = 0 THEN 1 ELSE 10 * Pow10(d - 1)

RECURSIVE BitLength(_)
BitLength(n) == IF n = 0 THEN 0 ELSE 1 + BitLength(n \div 2)

RECURSIVE LimbsOfNat(_)
LimbsOfNat(n) == IF n = 0 THEN <<>> ELSE <<n % LimbBase>> \o LimbsOfNat(n \div LimbBase)

RECURSIVE NatOfBits(_)
NatOfBits(b) == IF b = <<>> THEN 0 ELSE b[1] + 2 * NatOfBits(Tail(b))

RECURSIVE TrimHigh(_)
TrimHigh(b) == IF b # <<>> /\ b[Len(b)] = 0 THEN TrimHigh(SubSeq(b, 1, Len(b) - 1)) ELSE b

BitsOfLimbs(limbs) ==
    Bind(limbs, LAMBDA l :
        IF l = <<>> THEN <<>>
        ELSE [i \in 1..((Len(l) - 1) * LimbWidth + BitLength(l[Len(l)])) |->
                 (l[((i - 1) \div LimbWidth) + 1] \div Pow2((i - 1) % LimbWidth)) % 2])

LimbsOfBits(bits) ==
    Bind(bits, LAMBDA b :
        [j \in 1..((Len(b) + LimbWidth - 1) \div LimbWidth) |->
            NatOfBits(SubSeq(b, (j - 1) * LimbWidth + 1,
                             IF j * LimbWidth > Len(b) THEN Len(b) ELSE j * LimbWidth))])

ShiftLeftLimbs(l, k) == IF l = <<>> THEN <<>> ELSE [i \in 1..k |-> 0] \o l

ShiftLeft(b, k) == IF b = <<>> THEN <<>> ELSE [i \in 1..k |-> 0] \o b

ShiftRight(b, k) == Drop(b, k)

RECURSIVE MulSmallFrom(_, _, _, _)
MulSmallFrom(l, c, i, carry) ==
    IF i > Len(l) THEN LimbsOfNat(carry)
    ELSE Bind(l[i] * c + carry, LAMBDA t :
             <<t % LimbBase>> \o MulSmallFrom(l, c, i + 1, t \div LimbBase))

MulSmall(limbs, c) == Bind(limbs, LAMBDA l : MulSmallFrom(l, c, 1, 0))

RECURSIVE IncBits(_)
IncBits(b) ==
    IF b = <<>> THEN <<1>>
    ELSE IF b[1] = 0 THEN <<1>> \o Tail(b) ELSE <<0>> \o IncBits(Tail(b))

\* long division by a small divisor, most significant limb first
RECURSIVE DivSmallFrom(_, _, _, _)
DivSmallFrom(l, c, i, rem) ==
    IF i = 0 THEN [q |-> <<>>, r |-> rem]
    ELSE Bind(LimbBase * rem + l[i], LAMBDA t :
         Bind(DivSmallFrom(l, c, i - 1, t % c), LAMBDA low :
             [q |-> Append(low.q, t \div c), r |-> low.r]))

DivSmall(limbs, c) ==
    Bind(limbs, LAMBDA l :
    Bind(DivSmallFrom(l, c, Len(l), 0), LAMBDA qr :
        [q |-> TrimHigh(qr.q), r |-> qr.r]))

(***************************************************************************)
(* IEEE-754 binary64 as used by float(), * and int() on line 147/148.      *)
(* A double is [neg, m, e]: value (-1)^neg * m * 2^e, m a bit sequence of  *)
(* at most MantBits bits after rounding (2^MantBits itself when a round-up *)
(* carries out).  Exponent range and subnormals are out of reach of the    *)
(* tokens the model draws.                                                 *)
(***************************************************************************)
MantBits == 53

\* round-to-nearest, ties-to-even, of b (plus a sticky remainder below it)
RoundBits(bits, sticky) ==
    Bind(bits, LAMBDA b :
        IF Len(b) <= MantBits THEN [m |-> b, shift |-> 0]
        ELSE LET drop == Len(b) - MantBits
                 half == b[drop] = 1
                 rest == sticky \/ \E i \in 1..(drop - 1) : b[i] = 1
                 up   == half /\ (rest \/ b[drop + 1] = 1)
             IN  Bind(SubSeq(b, drop + 1, Len(b)), LAMBDA kept :
                     [m |-> IF up THEN IncBits(kept) ELSE kept, shift |-> drop]))

\* the double nearest to n / 10^d  (float() is correctly rounded): the
\* quotient n * 2^k / 10^d, k = LimbWidth * (6 + d), has more than MantBits + 2
\* bits for every n >= 1
DoubleOfDecimal(neg, n, d) ==
    Bind(DivSmall(ShiftLeftLimbs(LimbsOfNat(n), 6 + d), Pow10(d)), LAMBDA qr :
    Bind(RoundBits(BitsOfLimbs(qr.q), qr.r # 0), LAMBDA rb :
        [neg |-> neg, m |-> rb.m, e |-> rb.shift - LimbWidth * (6 + d)]))

\* float(s): blanks stripped, optional sign, digits with at most one point
\* and at least one digit
PyFloat(s) ==
    Bind(Strip(s), LAMBDA t :
    Bind(Split(IF Signed(t) THEN Tail(t) ELSE t, "."), LAMBDA parts :
    Bind(IF Len(parts) = 2 THEN parts[2] ELSE <<>>, LAMBDA fp :
    Bind(parts[1] \o fp, LAMBDA ds :
        IF Len(parts) <= 2 /\ IsDigits(ds)
        THEN [exc |-> "none",
              val |-> DoubleOfDecimal(Head(t) = "-", DecValue(ds), Len(fp))]
        ELSE [exc |-> "ValueError", val |-> [neg |-> FALSE, m |-> <<>>, e |-> 0]]))))

\* x * 1000: the exact product rounded to a double
FloatTimes(x, c) ==
    Bind(RoundBits(BitsOfLimbs(MulSmall(LimbsOfBits(x.m), c)), FALSE), LAMBDA rb :
        [neg |-> x.neg, m |-> rb.m, e |-> x.e + rb.shift])

\* int(x): truncation toward zero
IntOfFloat(x) ==
    Bind(IF x.e >= 0 THEN NatOfBits(ShiftLeft(x.m, x.e))
         ELSE NatOfBits(ShiftRight(x.m, 0 - x.e)), LAMBDA mag :
        IF x.neg THEN 0 - mag ELSE mag)

\* round(x): nearest integer, ties to even
RoundMagnitude(m, k) ==
    LET half == k >= 1 /\ k <= Len(m) /\ m[k] = 1
        rest == \E i \in 1..(k - 1) : i <= Len(m) /\ m[i] = 1
    IN  Bind(NatOfBits(ShiftRight(m, k)), LAMBDA fl :
            IF half /\ (rest \/ fl % 2 = 1) THEN fl + 1 ELSE fl)

RoundOfFloat(x) ==
    Bind(IF x.e >= 0 THEN NatOfBits(ShiftLeft(x.m, x.e))
         ELSE RoundMagnitude(x.m, 0 - x.e), LAMBDA mag :
        IF x.neg THEN 0 - mag ELSE mag)


(***************************************************************************)
(* Pager: normalize_url and get_last_page_number                           *)
(***************************************************************************)
PgParam == <<"&", "p", "g", "=">>
Placeholder == <<"{", "p", "a", "g", "e", "}">>

\* the end (exclusive) of the digit run starting at i
RECURSIVE DigitRunEnd(_, _)
DigitRunEnd(s, i) == IF i <= Len(s) /\ s[i] \in Digits THEN DigitRunEnd(s, i + 1) ELSE i

\* where re.sub's pattern (.*)&pg=[0-9]+(.*) matches: the first group is
\* greedy, so "&pg=" is the last one that a digit follows; 0 when none
PgMatchStart(u) ==
    LET starts == {i \in 1..Len(u) : /\ HasPrefixAt(u, PgParam, i)
                                     /\ i + Len(PgParam) <= Len(u)
                                     /\ u[i + Len(PgParam)] \in Digits}
    IN  IF starts = {} THEN 0 ELSE CHOOSE i \in starts : \A j \in starts : j <= i

\* re.sub(r"(.*)&pg=[0-9]+(.*)", r"\1\2", url): [0-9]+ is greedy too
SubPg(u) ==
    LET i == PgMatchStart(u)
    IN  IF i = 0 THEN u
        ELSE Take(u, i - 1) \o Drop(u, DigitRunEnd(u, i + Len(PgParam)) - 1)

NormalizeUrlOneDigit(u) ==
    LET i == PgMatchStart(u)
    IN  (IF i = 0 THEN u ELSE Take(u, i - 1) \o Drop(u, i + Len(PgParam)))
        \o PgParam \o Placeholder

NormalizeUrl(u) == SubPg(u) \o PgParam \o Placeholder

\* template.format(page=k) for a template whose only braces are those of
\* {page}: every {page} field is replaced by str(k)
RECURSIVE Format(_, _)
Format(t, k) ==
    IF t = <<>> THEN <<>>
    ELSE IF HasPrefixAt(t, Placeholder, 1)
         THEN NatStr(k) \o Format(Drop(t, Len(Placeholder)), k)
         ELSE <<Head(t)>> \o Format(Tail(t), k)

\* A soup is [ads, pagination]: ads is what find_all("div",
\* class_="clsfd_list_row_group") yields, each ad being ad.text.splitlines();
\* pagination is what find("ul", class_="pagination pull-right") yields:
\* [found |-> FALSE] for None, else the element's text.splitlines().
DefaultLastPage == 2

GetLastPageNumber(soup) ==
    Bind(soup.pagination.lines, LAMBDA lines :
        IF ~soup.pagination.found THEN [exc |-> "AttributeError", val |-> 0]
        ELSE IF Len(lines) < 2 THEN [exc |-> "IndexError", val |-> 0]
        ELSE Bind(PyInt(lines[Len(lines) - 1]), LAMBDA n :
                 IF n.exc = "ValueError" THEN [exc |-> "none", val |-> DefaultLastPage]
                 ELSE n))

(***************************************************************************)
(* Listing extractor: get_page_bikes                                       *)
(***************************************************************************)
Marker == <<"g", "o", "o", "g", "l", "e", "t", "a", "g">>
Point == <<".">>
DistanceUnitWidth == 3
PricePrefixWidth == 2
YearPivot == 20
CenturyLow == 2000
CenturyHigh == 1990

NonBlank(line) == Strip(line) # <<>>

\* [line.strip() for line in ad.text.splitlines() if line.strip()]
TextLines(ad) ==
    Bind(SelectSeq(ad, NonBlank), LAMBDA kept : [i \in 1..Len(kept) |-> Strip(kept[i])])

\* int(float(tok) * 1000)
Thousands(tok) ==
    Bind(PyFloat(tok), LAMBDA f :
        IF f.exc # "none" THEN [exc |-> f.exc, val |-> 0]
        ELSE Bind(FloatTimes(f.val, 1000), LAMBDA x :
                 [exc |-> "none", val |-> IntOfFloat(x)]))

\* line 147
NormalizeDistance(distance) ==
    Bind(Take(distance, Len(distance) - DistanceUnitWidth), LAMBDA tok :
        IF Contains(distance, Point) THEN Thousands(tok) ELSE PyInt(tok))

\* line 148: pint is not defined anywhere, so the else branch raises
NormalizePrice(price) ==
    Bind(Drop(price, PricePrefixWidth), LAMBDA tok :
        IF Contains(price, Point) THEN Thousands(tok)
        ELSE [exc |-> "NameError", val |-> 0])

\* year += 2000 if year < 20 else 1990
ResolveYearInclusivePivot(year) == IF year <= YearPivot THEN year + CenturyLow ELSE year + CenturyHigh

ResolveYear(year) == IF year < YearPivot THEN year + CenturyLow ELSE year + CenturyHigh

\* lines 149-151
NoDate == <<0, 0, 0>>

NormalizeDate(date) ==
    Bind(Split(date, "/"), LAMBDA parts :
        IF Len(parts) # 2 THEN [exc |-> "ValueError", val |-> NoDate]
        ELSE Bind(PyInt(parts[1]), LAMBDA month :
             Bind(PyInt(parts[2]), LAMBDA year :
                 IF month.exc # "none" \/ year.exc # "none"
                 THEN [exc |-> "ValueError", val |-> NoDate]
                 ELSE Bind(ResolveYear(year.val), LAMBDA y :
                          IF month.val \notin 1..12 \/ y \notin 1..9999
                          THEN [exc |-> "ValueError", val |-> NoDate]
                          ELSE [exc |-> "none", val |-> <<y, month.val, 1>>]))))

\* lines 143-144
KeepMarkerLine(text) == text

DropMarkerLine(text) ==
    IF Contains(text[Len(text)], Marker) THEN SubSeq(text, 1, Len(text) - 1) ELSE text

NoBike == <<>>

\* the loop body, lines 141-152, for one ad
\* line 145 and the normalisation of lines 147-151, on the cleaned lines
MapFields(text) ==
    IF Len(text) < 5 THEN [exc |-> "IndexError", bike |-> NoBike]
    ELSE Bind(NormalizeDistance(text[Len(text) - 1]), LAMBDA distance :
         IF distance.exc # "none" THEN [exc |-> distance.exc, bike |-> NoBike]
         ELSE Bind(NormalizePrice(text[Len(text) - 2]), LAMBDA price :
         IF price.exc # "none" THEN [exc |-> price.exc, bike |-> NoBike]
         ELSE Bind(NormalizeDate(text[Len(text) - 4]), LAMBDA date :
         IF date.exc # "none" THEN [exc |-> date.exc, bike |-> NoBike]
         ELSE [exc |-> "none",
               bike |-> <<text[1], distance.val, price.val, date.val>>])))

\* the loop body, lines 141-152, for one ad
ExtractBike(ad) ==
    Bind(TextLines(ad), LAMBDA raw :
        IF raw = <<>> THEN [exc |-> "IndexError", bike |-> NoBike]
        ELSE Bind(DropMarkerLine(raw), LAMBDA text : MapFields(text)))

\* the whole loop: the first ad that raises ends the call
RECURSIVE BikesFrom(_, _)
BikesFrom(ads, i) ==
    IF i > Len(ads) THEN [exc |-> "none", bikes |-> <<>>]
    ELSE Bind(ExtractBike(ads[i]), LAMBDA b :
         IF b.exc # "none" THEN [exc |-> b.exc, bikes |-> <<>>]
         ELSE Bind(BikesFrom(ads, i + 1), LAMBDA rest :
              IF rest.exc # "none" THEN rest
              ELSE [exc |-> "none", bikes |-> <<b.bike>> \o rest.bikes]))

GetPageBikes(soup) == Bind(soup.ads, LAMBDA ads : BikesFrom(ads, 1))


(***************************************************************************)
(* Storage and report: Database.insert_data and Database.analyze           *)
(***************************************************************************)
YearOf(bike) == bike[4][1]

RECURSIVE SumOf(_, _)
SumOf(rows, col) == IF rows = <<>> THEN 0 ELSE Head(rows)[col] + SumOf(Tail(rows), col)

MinOf(rows, col) ==
    CHOOSE v \in {rows[i][col] : i \in 1..Len(rows)} : \A i \in 1..Len(rows) : v <= rows[i][col]

InYear(rows, y) == SelectSeq(rows, LAMBDA r : YearOf(r) = y)

\* GROUP BY year ORDER BY year
RECURSIVE SortedYears(_)
SortedYears(ys) ==
    IF ys = {} THEN <<>>
    ELSE LET y == CHOOSE v \in ys : \A w \in ys : v <= w
         IN  <<y>> \o SortedYears(ys \ {y})

\* one row per year; AVG is kept as the pair (sum, cnt) it is computed from
ReportRows(rows) ==
    Bind(SortedYears({YearOf(rows[i]) : i \in 1..Len(rows)}), LAMBDA years :
        [j \in 1..Len(years) |->
            Bind(InYear(rows, years[j]), LAMBDA g :
                [year |-> years[j], cnt |-> Len(g),
                 sum_price |-> SumOf(g, 3), min_price |-> MinOf(g, 3),
                 sum_distance |-> SumOf(g, 2), min_distance |-> MinOf(g, 2)])])

NoReport == [printed |-> "none", rows |-> <<>>]

\* analyze(): on an empty table AVG(price) is NULL and "%.0f" % None raises
\* after the header was printed
Analyze(table) ==
    Bind(table, LAMBDA rows :
    IF rows = <<>>
    THEN [exc |-> "TypeError", report |-> [printed |-> "header", rows |-> <<>>]]
    ELSE [exc |-> "none", report |-> [printed |-> "full", rows |-> ReportRows(rows)]])

(***************************************************************************)
(* Inputs                                                                  *)
(***************************************************************************)
MaxPage == 3

Absent == [found |-> FALSE, lines |-> <<>>]
NextArrow == <<">">>

\* a pagination control listing pages 1..n and a "next" arrow
PaginationOf(n) == [found |-> TRUE, lines |-> [i \in 1..n |-> NatStr(i)] \o <<NextArrow>>]

AdHonda == <<<<"X", "R">>, <<"0", "7", "/", "1", "5">>, <<"6", "0", "0">>, <<"E", " ", "3", ".", "5", "0", "0">>, <<"1", "2", ".", "5", "0", "0", " ", "k", "m">>, <<"A", "t", "h">>>>
AdYamaha == <<<<"Y", "Z">>, <<" ">>, <<"1", "1", "/", "9", "8">>, <<"1", "2", "5">>, <<"E", " ", "2", ".", "7", "5">>, <<" ", "4", "0", ".", "1", " ", "k", "m">>, <<"P", "a", "t">>, <<"g", "o", "o", "g", "l", "e", "t", "a", "g", ".", "x">>>>
AdBadDate == <<<<"K", "T">>, <<"n", "e", "w">>, <<"2", "5", "0">>, <<"E", " ", "1", ".", "2", "0", "0">>, <<"9", ".", "0", "0", "0", " ", "k", "m">>, <<"V", "o", "l">>>>

CrawlAdSeqs ==
    { <<>>, <<AdYamaha>>, <<AdHonda, AdYamaha>>, <<AdHonda, AdBadDate, AdYamaha>> }

FirstPaginations ==
    {Absent, [found |-> TRUE, lines |-> <<NextArrow>>],
     [found |-> TRUE, lines |-> <<<<"x">>, NextArrow>>]}
    \cup {PaginationOf(n) : n \in 1..MaxPage}

LaterPaginations == {Absent, PaginationOf(1)}

\* what the site may serve for a page index
Soups(k) ==
    [ads : CrawlAdSeqs, pagination : IF k = 1 THEN FirstPaginations ELSE LaterPaginations]

CrawlUrls == {<<"h", "?", "c", "=", "1">>, <<"h", "?", "c", "=", "1", "&", "p", "g", "=", "2", "&", "s", "=", "3">>}

NoSoup == [ads |-> <<>>, pagination |-> Absent]
NoExc == [type |-> "none", raisedIn |-> "none"]
NoRet == [fn |-> "none"]

(***************************************************************************)
(* State                                                                   *)
(***************************************************************************)
VARIABLES
    pc,        \* where main / get_data stands
    url,       \* get_data's url: the input, then the page template
    page,      \* the loop variable of line 173 (1 for the first page)
    total,     \* get_last_page_number(soup) of line 173
    data,      \* get_data's accumulating list
    soup,      \* the soup last returned by get_soup
    fetched,   \* history: the requests made, [page, url], in order
    soups,     \* history: the soups get_soup returned, in order
    perPage,   \* history: what get_page_bikes returned for each page
    exc,       \* the exception that ended the run, if any
    exitCode,  \* set by sys.exit
    store,     \* rows of the data table
    report,    \* what analyze() printed
    ret,       \* the result of a single function call (function-level specs)
    trip       \* the URL round trip: input, template, instance, template

vars == <<pc, url, page, total, data, soup, fetched, soups, perPage, exc, exitCode, store, report, ret, trip>>

\* nothing fetched, nothing stored, nothing printed
Fresh ==
    /\ page = 0 /\ total = 0 /\ data = <<>>
    /\ fetched = <<>> /\ soups = <<>> /\ perPage = <<>> /\ exc = NoExc /\ exitCode = 0
    /\ store = <<>> /\ report = NoReport
    /\ ret = NoRet

Init ==
    /\ pc = "start"
    /\ url \in CrawlUrls
    /\ soup = NoSoup
    /\ trip = <<>>
    /\ Fresh

(***************************************************************************)
(* get_data and main                                                       *)
(***************************************************************************)
\* data.extend(bikes)
Extend(d, bikes) == d \o bikes

\* range(2, last + 1) has an index after p
HasNext(p, last) == p + 1 <= last

\* get_soup's except ValueError: logger.error, sys.exit(1)
OnValueErrorSkipPage == "loop"

OnValueError == "exited"

\* lines 164-169
Begin ==
    /\ pc = "start"
    /\ url' = NormalizeUrl(url)
    /\ page' = 1
    /\ pc' = "get_soup"
    /\ UNCHANGED <<total, data, soup, fetched, soups, perPage, exc, exitCode, store, report, ret, trip>>

\* get_soup(url.format(page=page)) returns a soup
GetSoupReturns ==
    /\ pc = "get_soup"
    /\ \E s \in Soups(page) : soup' = s /\ soups' = Append(soups, s)
    /\ fetched' = Append(fetched, [page |-> page, url |-> Format(url, page)])
    /\ pc' = "get_page_bikes"
    /\ UNCHANGED <<url, page, total, data, perPage, exc, exitCode, store, report, ret, trip>>

\* urlopen raises ValueError: lines 133-135
GetSoupExits ==
    /\ pc = "get_soup"
    /\ fetched' = Append(fetched, [page |-> page, url |-> Format(url, page)])
    /\ exitCode' = 1
    /\ pc' = OnValueError
    /\ UNCHANGED <<url, page, total, data, soup, soups, perPage, exc, store, report, ret, trip>>

\* urlopen or BeautifulSoup raises anything else (URLError, HTTPError, ...):
\* nothing catches it
GetSoupRaises ==
    /\ pc = "get_soup"
    /\ fetched' = Append(fetched, [page |-> page, url |-> Format(url, page)])
    /\ exc' = [type |-> "URLError", raisedIn |-> "get_soup"]
    /\ pc' = "raised"
    /\ UNCHANGED <<url, page, total, data, soup, soups, perPage, exitCode, store, report, ret, trip>>

\* data.extend(get_page_bikes(soup)): lines 171 and 176
ExtendData ==
    /\ pc = "get_page_bikes"
    /\ \E r \in {GetPageBikes(soup)} :
           IF r.exc # "none"
           THEN /\ exc' = [type |-> r.exc, raisedIn |-> "get_page_bikes"]
                /\ pc' = "raised"
                /\ UNCHANGED <<data, perPage>>
           ELSE /\ data' = Extend(data, r.bikes)
                /\ perPage' = Append(perPage, r.bikes)
                /\ pc' = IF page = 1 THEN "range" ELSE "loop"
                /\ UNCHANGED exc
    /\ UNCHANGED <<url, page, total, soup, fetched, soups, exitCode, store, report, ret, trip>>

\* range(2, get_last_page_number(soup) + 1): line 173, evaluated once
Range ==
    /\ pc = "range"
    /\ \E l \in {GetLastPageNumber(soup)} :
           IF l.exc # "none"
           THEN /\ exc' = [type |-> l.exc, raisedIn |-> "get_last_page_number"]
                /\ pc' = "raised"
                /\ UNCHANGED total
           ELSE /\ total' = l.val
                /\ pc' = "loop"
                /\ UNCHANGED exc
    /\ UNCHANGED <<url, page, data, soup, fetched, soups, perPage, exitCode, store, report, ret, trip>>

\* the for statement takes the next index: lines 173-174
NextPage ==
    /\ pc = "loop"
    /\ HasNext(page, total)
    /\ page' = page + 1
    /\ pc' = "get_soup"
    /\ UNCHANGED <<url, total, data, soup, fetched, soups, perPage, exc, exitCode, store, report, ret, trip>>

\* the range is exhausted: lines 177-178
Return ==
    /\ pc = "loop"
    /\ ~HasNext(page, total)
    /\ pc' = "returned"
    /\ UNCHANGED <<url, page, total, data, soup, fetched, soups, perPage, exc, exitCode, store, report, ret, trip>>

\* main, lines 205-206: db = Database(); db.insert_data(data)
InsertData ==
    /\ pc = "returned"
    /\ store' = [i \in 1..Len(data) |-> <<i>> \o data[i]]
    /\ pc' = "inserted"
    /\ UNCHANGED <<url, page, total, data, soup, fetched, soups, perPage, exc, exitCode, report, ret, trip>>

\* main, line 207: db.analyze()
AnalyzeData ==
    /\ pc = "inserted"
    /\ \E a \in {Analyze([i \in 1..Len(store) |-> Tail(store[i])])} :
           /\ report' = a.report
           /\ IF a.exc # "none"
              THEN /\ exc' = [type |-> a.exc, raisedIn |-> "analyze"]
                   /\ pc' = "raised"
              ELSE /\ pc' = "done"
                   /\ UNCHANGED exc
    /\ UNCHANGED <<url, page, total, data, soup, fetched, soups, perPage, exitCode, store, ret, trip>>

Next ==
    \/ Begin
    \/ GetSoupReturns
    \/ GetSoupExits
    \/ GetSoupRaises
    \/ ExtendData
    \/ Range
    \/ NextPage
    \/ Return
    \/ InsertData
    \/ AnalyzeData

Spec == Init /\ [][Next]_vars


(***************************************************************************)
(* Single calls of get_page_bikes and get_last_page_number                 *)
(***************************************************************************)
CallGetPageBikes ==
    /\ pc = "call"
    /\ \E r \in {GetPageBikes(soup)} :
           ret' = [fn |-> "get_page_bikes", exc |-> r.exc, bikes |-> r.bikes]
    /\ pc' = "ret"
    /\ UNCHANGED <<url, page, total, data, soup, fetched, soups, perPage, exc, exitCode, store, report, trip>>

CallGetLastPageNumber ==
    /\ pc = "call"
    /\ \E r \in {GetLastPageNumber(soup)} :
           ret' = [fn |-> "get_last_page_number", exc |-> r.exc, val |-> r.val]
    /\ pc' = "ret"
    /\ UNCHANGED <<url, page, total, data, soup, fetched, soups, perPage, exc, exitCode, store, report, trip>>

Description == <<"X", "R">>
Filler == <<"6", "0", "0">>
Location == <<"A", "t", "h">>
GoodDate == <<"0", "7", "/", "1", "5">>
GoodPrice == <<"E", " ", "3", ".", "5", "0", "0">>
GoodDistance == <<"1", "2", ".", "5", "0", "0", " ", "k", "m">>
Unit == <<" ", "k", "m">>
Currency == <<"E", " ">>

AdWith(date, price, distance) == <<Description, date, Filler, price, distance, Location>>

SoupOf(ads) == [ads |-> ads, pagination |-> Absent]

\* ---- number tokens ----
MaxFracLen == 4

WholeParts == {<<"0">>, <<"1">>, <<"2">>, <<"1", "2">>, <<"4", "0">>}
FracDigits == {"0", "1", "5"}
PlainTokens == {<<"0">>, <<"7">>, <<"9", "0", "0">>, <<"1", "5", "0", "0">>, <<"0", "0", "7">>}
BadTokens == {<<>>, <<"1", "x">>, <<"1", ".", "5", ".", "1">>, <<".">>, <<"x", ".", "5">>}

FracParts == UNION {[1..n -> FracDigits] : n \in 0..MaxFracLen}

PointTokens == {w \o Point \o f : w \in WholeParts, f \in FracParts}

NumberTokens == PointTokens \cup PlainTokens \cup BadTokens

NumberSoups ==
    {SoupOf(<<AdWith(GoodDate, GoodPrice, t \o Unit)>>) : t \in NumberTokens}
    \cup {SoupOf(<<AdWith(GoodDate, Currency \o t, GoodDistance)>>) : t \in NumberTokens}

InitNumbers ==
    /\ pc = "call" /\ soup \in NumberSoups
    /\ url = <<>> /\ trip = <<>> /\ Fresh

SpecNumbers == InitNumbers /\ [][CallGetPageBikes]_vars

\* ---- date tokens ----
TwoDigits(n) == <<DigitChar(n \div 10), DigitChar(n % 10)>>

DateTokens ==
    {TwoDigits(m) \o <<"/">> \o TwoDigits(y) : m \in 0..13, y \in 0..99}
    \cup {<<"n", "e", "w">>, <<"0", "7", "/", "1", "5", "/", "1">>, <<"0", "7", "-", "1", "5">>, <<"7", "/", "5">>, <<"/", "1", "5">>}

DateSoups == {SoupOf(<<AdWith(d, GoodPrice, GoodDistance)>>) : d \in DateTokens}

InitDates ==
    /\ pc = "call" /\ soup \in DateSoups
    /\ url = <<>> /\ trip = <<>> /\ Fresh

SpecDates == InitDates /\ [][CallGetPageBikes]_vars

\* ---- ad blocks ----
MarkerLine == <<"g", "o", "o", "g", "l", "e", "t", "a", "g", ".", "x">>
Blank == <<" ">>

AdHeads == {<<Description>>, <<Description, Filler>>, <<Blank, Description>>, <<>>}

AdBodies ==
    { <<GoodDate, Filler, GoodPrice, GoodDistance, Location>>,
      <<GoodDate, GoodPrice, GoodDistance, Location>>,
      <<GoodDate, Filler, <<"E", " ", "9", "0", "0">>, GoodDistance, Location>>,
      <<GoodDate, Filler, GoodPrice, <<"8", "0", "0", " ", "k", "m">>, Location>>,
      <<<<"1", "1", "/", "9", "8">>, Filler, <<"E", " ", "2", ".", "7", "5">>, <<" ", "4", "0", ".", "1", " ", "k", "m">>, Blank, Location>> }

AdTails ==
    { <<>>, <<MarkerLine>>, <<MarkerLine, Blank>>, <<<<" ", "x", " ", "g", "o", "o", "g", "l", "e", "t", "a", "g", " ">>>>,
      <<MarkerLine, MarkerLine>>, <<Location>> }

AdShapes == {h \o b \o t : h \in AdHeads, b \in AdBodies, t \in AdTails} \cup {<<>>, <<MarkerLine>>}

AdKawasaki == <<<<"K", "X">>, <<"0", "1", "/", "2", "0">>, <<"2", "5", "0">>, <<"E", " ", "1", ".", "2", "0", "0">>, <<"9", ".", "0", "0", "0", " ", "k", "m">>, <<"V", "o", "l">>>>

AdTrio == {AdHonda, AdYamaha, AdKawasaki}

AdSoups ==
    {SoupOf(<<a>>) : a \in AdShapes}
    \cup {SoupOf(<<a, b, c>>) : a \in AdTrio, b \in AdTrio, c \in AdTrio}

InitAds ==
    /\ pc = "call" /\ soup \in AdSoups
    /\ url = <<>> /\ trip = <<>> /\ Fresh

SpecAds == InitAds /\ [][CallGetPageBikes]_vars

\* ---- pagination controls ----
MaxPagLines == 3

PagLines == {<<>>, <<"1">>, <<"2">>, <<"1", "2">>, <<" ", "3", " ">>, <<"x">>, <<">">>}

PagSoups ==
    {[ads |-> <<>>, pagination |-> Absent]}
    \cup {[ads |-> <<>>, pagination |-> [found |-> TRUE, lines |-> l]] :
             l \in UNION {[1..n -> PagLines] : n \in 0..MaxPagLines}}

InitPager ==
    /\ pc = "call" /\ soup \in PagSoups
    /\ url = <<>> /\ trip = <<>> /\ Fresh

SpecPager == InitPager /\ [][CallGetLastPageNumber]_vars

(***************************************************************************)
(* The URL round trip: normalize_url, template.format(page=k),             *)
(* normalize_url again                                                     *)
(***************************************************************************)
MaxSegments == 3

UrlSegments == {<<"h", "?", "c", "=", "1">>, <<"&", "p", "g", "=">>, <<"3">>, <<"1", "2">>, <<"&", "p", "g", "=", "7">>, <<"?", "p", "g", "=", "4">>, <<"&", "s">>}

RECURSIVE Concat(_)
Concat(ss) == IF ss = <<>> THEN <<>> ELSE Head(ss) \o Concat(Tail(ss))

Urls == {Concat(ss) : ss \in UNION {[1..n -> UrlSegments] : n \in 0..MaxSegments}}

PageIndexes == {1, 2, 9, 10, 123}

InitUrl ==
    /\ pc = "call" /\ \E u \in Urls : trip = <<u>>
    /\ url = <<>> /\ soup = NoSoup /\ Fresh

CallNormalizeUrl ==
    /\ pc = "call"
    /\ Len(trip) \in {1, 3}
    /\ trip' = Append(trip, NormalizeUrl(trip[Len(trip)]))
    /\ UNCHANGED <<pc, url, page, total, data, soup, fetched, soups, perPage, exc, exitCode, store, report, ret>>

CallFormat ==
    /\ pc = "call"
    /\ Len(trip) = 2
    /\ \E k \in PageIndexes : page' = k /\ trip' = Append(trip, Format(trip[2], k))
    /\ UNCHANGED <<pc, url, total, data, soup, fetched, soups, perPage, exc, exitCode, store, report, ret>>

NextUrl == CallNormalizeUrl \/ CallFormat

SpecUrl == InitUrl /\ [][NextUrl]_vars


(***************************************************************************)
(* Properties                                                              *)
(***************************************************************************)
RECURSIVE Flatten(_)
Flatten(ss) == IF ss = <<>> THEN <<>> ELSE Head(ss) \o Flatten(Tail(ss))

\* line 173 has been evaluated
TotalKnown == Len(perPage) >= 1 /\ pc # "range" /\ exc.raisedIn # "get_last_page_number"

Returned == pc \in {"returned", "inserted", "done"} \/ exc.raisedIn = "analyze"

FetchFailed == exitCode # 0 \/ exc.raisedIn = "get_soup"

\* the run is over
Ended == pc \in {"done", "raised", "exited"} \/ Returned

\* C1 (the claim as stated): the crawl requests pages 1, 2, ... one at a
\* time in increasing index order, each once, a page being extracted before
\* the next is requested; the page count is get_last_page_number of the
\* first soup, whatever the later soups say; data is the concatenation of
\* the per-page listing sequences in fetch order; and a run in which no
\* fetch fails and the first page's pagination control yields N >= 2 ends
\* with get_data returned and exactly the pages 1..N fetched.
C1_SequentialCrawl ==
    /\ \A i \in 1..Len(fetched) : fetched[i].page = i
    /\ Len(soups) <= Len(fetched) /\ Len(fetched) <= Len(soups) + 1
    /\ Len(perPage) <= Len(soups) /\ Len(soups) <= Len(perPage) + 1
    /\ data = Flatten(perPage)
    /\ TotalKnown =>
           /\ total = GetLastPageNumber(soups[1]).val
           /\ Len(fetched) <= (IF total >= 2 THEN total ELSE 1)
    /\ Ended /\ ~FetchFailed /\ soups # <<>> =>
           Bind(GetLastPageNumber(soups[1]), LAMBDA n :
               n.exc = "none" /\ n.val >= 2 =>
                   /\ Returned
                   /\ Len(fetched) = n.val /\ Len(perPage) = n.val)

\* C2: once a fetch has failed, get_data has not returned and never will
\* (the run has ended), no row was inserted and nothing was printed,
\* whatever was extracted before; and anything printed implies that every
\* page up to the last page number was fetched and extracted.
C2_FailedFetchDiscardsAll ==
    /\ FetchFailed =>
           /\ pc \in {"exited", "raised"}
           /\ store = <<>>
           /\ report = NoReport
    /\ report # NoReport =>
           /\ ~FetchFailed
           /\ Len(fetched) = (IF total >= 2 THEN total ELSE 1)
           /\ Len(soups) = Len(fetched)
           /\ Len(perPage) = Len(fetched)

C2_Witness ==
    /\ FetchFailed
    /\ Len(fetched) >= 2 /\ fetched[Len(fetched)].page >= 2
    /\ Len(perPage) = Len(fetched) - 1
    /\ data # <<>>
    /\ store = <<>> /\ report = NoReport

\* C3 (the claim as stated): get_last_page_number returns 2, without
\* raising, whenever the pagination control is absent, has fewer than two
\* lines, or has a non-numeric second-to-last line.
Unparsable(p) ==
    p.found /\ (Len(p.lines) < 2 \/ ~IsDigits(Strip(p.lines[Len(p.lines) - 1])))

C3_DefaultsToTwo ==
    pc = "ret" /\ (~soup.pagination.found \/ Unparsable(soup.pagination))
        => ret.exc = "none" /\ ret.val = 2

\* the listings of the ads that extract without error, in page order
WellFormedBikes(s) ==
    LET good == SelectSeq(s.ads, LAMBDA ad : ExtractBike(ad).exc = "none")
    IN  [i \in 1..Len(good) |-> ExtractBike(good[i]).bike]

\* C4 (the claim as stated): an ad block whose extraction fails is skipped:
\* get_page_bikes never ends the crawl, and every fetched page contributes
\* the listings of its other blocks.
C4_SkipsBadBlocks ==
    /\ exc.raisedIn # "get_page_bikes"
    /\ pc \notin {"get_soup", "get_page_bikes"} => Len(perPage) = Len(soups)
    /\ \A i \in 1..Len(perPage) : perPage[i] = WellFormedBikes(soups[i])

\* the tokens of a single-ad soup built by AdWith, unit and currency stripped
DistanceLine == soup.ads[1][5]
PriceLine == soup.ads[1][4]
DateLine == soup.ads[1][2]
DistanceToken == Take(DistanceLine, Len(DistanceLine) - 3)
PriceToken == Drop(PriceLine, 2)

\* digits around exactly one point
ValidPointToken(t) ==
    /\ Cardinality({i \in 1..Len(t) : t[i] = "."}) = 1
    /\ \E i \in 1..Len(t) : t[i] \in Digits
    /\ \A i \in 1..Len(t) : t[i] \in Digits \cup {"."}

\* round(float(t) * 1000)
RoundedThousands(t) == RoundOfFloat(FloatTimes(PyFloat(t).val, 1000))

\* C5 (the claim as stated): a distance or price token with a point
\* normalises to round(float(token) * 1000).
C5_RoundsToNearest ==
    pc = "ret" /\ ValidPointToken(DistanceToken) /\ ValidPointToken(PriceToken)
        => /\ ret.exc = "none"
           /\ ret.bikes[1][2] = RoundedThousands(DistanceToken)
           /\ ret.bikes[1][3] = RoundedThousands(PriceToken)

\* C6 (the claim as stated): a distance token and a price token without a
\* point normalise, without error, to int(token).
C6_PlainIntegers ==
    pc = "ret" =>
        /\ IsDigits(DistanceToken) /\ ValidPointToken(PriceToken)
               => ret.exc = "none" /\ ret.bikes[1][2] = DecValue(DistanceToken)
        /\ IsDigits(PriceToken) /\ ValidPointToken(DistanceToken)
               => ret.exc = "none" /\ ret.bikes[1][3] = DecValue(PriceToken)

\* the month and the two-digit year of a token "MM/YY"
IsMonthYear(d) ==
    /\ Len(d) = 5 /\ d[3] = "/"
    /\ \A i \in {1, 2, 4, 5} : d[i] \in Digits
    /\ 10 * DigitVal(d[1]) + DigitVal(d[2]) \in 1..12

MonthOf(d) == 10 * DigitVal(d[1]) + DigitVal(d[2])
ShortYearOf(d) == 10 * DigitVal(d[4]) + DigitVal(d[5])

\* C7: for a date token "MM/YY" with month 1..12 the listing is emitted and
\* its date is the 1st of month MM of year 2000 + YY when YY < 20 and of
\* year 1990 + YY otherwise.
C7_YearPivot ==
    pc = "ret" /\ IsMonthYear(DateLine) =>
        /\ ret.exc = "none"
        /\ Len(ret.bikes) = 1
        /\ ret.bikes[1][4] =
               << IF ShortYearOf(DateLine) < 20 THEN 2000 + ShortYearOf(DateLine)
                  ELSE 1990 + ShortYearOf(DateLine),
                  MonthOf(DateLine), 1 >>

C7_Witness ==
    /\ pc = "ret"
    /\ DateLine = <<"1", "2", "/", "2", "0">>
    /\ ret.exc = "none"
    /\ ret.bikes[1][4] = <<2010, 12, 1>>

\* C8: normalising an instantiated template gives the template back, for any
\* input URL and page index.
C8_RoundTrip == Len(trip) = 4 => trip[4] = trip[2]

PgOccurrences(u) ==
    Cardinality({i \in 1..Len(u) : HasPrefixAt(u, PgParam, i) /\ i + 4 <= Len(u) /\ u[i + 4] \in Digits})

C8_Witness ==
    /\ Len(trip) = 4
    /\ PgOccurrences(trip[1]) >= 2
    /\ page >= 10
    /\ trip[4] = trip[2]
    /\ trip[2] # trip[1] \o PgParam \o Placeholder

PgEquals == <<"p", "g", "=">>

Occurrences(u, sub) == Cardinality({i \in 1..Len(u) : HasPrefixAt(u, sub, i)})

HasPageNumber(u) ==
    \E i \in 1..Len(u) : HasPrefixAt(u, PgEquals, i) /\ i + 3 <= Len(u) /\ u[i + 3] \in Digits

EndsWith(u, suffix) == Len(suffix) <= Len(u) /\ HasPrefixAt(u, suffix, Len(u) - Len(suffix) + 1)

\* C9 (the claim as stated): the template keeps no pg=<digits> of the input
\* and holds the placeholder once, so that the instance for page k has k as
\* its only page parameter.
C9_StripsEveryPageParameter ==
    /\ Len(trip) >= 2 =>
           /\ ~HasPageNumber(trip[2])
           /\ Occurrences(trip[2], Placeholder) = 1
    /\ Len(trip) >= 3 =>
           /\ Occurrences(trip[3], PgEquals) = 1
           /\ EndsWith(trip[3], PgEquals \o NatStr(page))

\* the stripped non-blank lines of an ad, and whether the last one holds the marker
Marked(ad) == TextLines(ad) # <<>> /\ Contains(TextLines(ad)[Len(TextLines(ad))], Marker)

Unmarked(ad) ==
    IF Marked(ad) THEN SubSeq(TextLines(ad), 1, Len(TextLines(ad)) - 1) ELSE TextLines(ad)

\* C10: for an ad whose last non-blank line holds the marker, the listing is
\* the one of the ad without that line: it is emitted exactly when that ad's
\* listing is, description is the first line and date, price and distance
\* are lines -5, -3 and -2 counted without the marker line; a page whose
\* ads are all well-formed once unmarked yields one listing per ad.
C10_MarkerLineDropped ==
    pc = "ret" =>
        /\ \A i \in 1..Len(soup.ads) :
               Marked(soup.ads[i]) /\ ret.exc = "none" =>
                   LET c == Unmarked(soup.ads[i])
                   IN  /\ Len(c) >= 5
                       /\ ret.bikes[i][1] = c[1]
                       /\ ret.bikes[i][2] = NormalizeDistance(c[Len(c) - 1]).val
                       /\ ret.bikes[i][3] = NormalizePrice(c[Len(c) - 2]).val
                       /\ ret.bikes[i][4] = NormalizeDate(c[Len(c) - 4]).val
        /\ (\A i \in 1..Len(soup.ads) : MapFields(Unmarked(soup.ads[i])).exc = "none")
               <=> (ret.exc = "none" /\ Len(ret.bikes) = Len(soup.ads))

C10_Witness ==
    /\ pc = "ret"
    /\ Len(soup.ads) = 3
    /\ Marked(soup.ads[2]) /\ ~Marked(soup.ads[1]) /\ ~Marked(soup.ads[3])
    /\ ret.exc = "none"
    /\ Len(ret.bikes) = 3
    /\ ret.bikes[2] = <<<<"Y", "Z">>, 40100, 2750, <<2088, 11, 1>>>>

====
